---- MODULE Spec2Model ----
(***************************************************************************)
(* Model of MultiWebsiteScraper (src/tempCodeRunnerFile.py): the           *)
(* concurrent crawl of the configured websites.  One site task             *)
(* (scrape_website) per website runs on a pool of max_workers threads;     *)
(* each task fetches its pages one after the other with get_page_content   *)
(* (retry and backoff), extracts records with extract_data_from_soup and   *)
(* sleeps the site's delay; the main thread collects the futures as they   *)
(* complete and builds the report with generate_report.                    *)
(*                                                                         *)
(* A site task is atomic between its suspension points, which are the      *)
(* network request and the two sleeps (backoff and inter-page delay).      *)
(***************************************************************************)
EXTENDS Naturals, Integers, Sequences, FiniteSets, TLC

\* ---------------------------------------------------------------- bounds
NumSites   == 2  \* number of entries of config['websites'] in a crawl
MaxWorkers == 2  \* largest configured scraper.max_workers
MaxRetries == 2  \* largest configured scraper.retries
MaxPages   == 2  \* largest number of pages of one website
MaxItems   == 2  \* largest number of containers one page can hold
MaxMatches == 2  \* largest number of elements a field selector matches
MaxFormats == 2  \* largest number of entries of storage.formats
MaxContainers == 1  \* containers of a page handed to extract_data_from_soup

\* ------------------------------------------------------ program constants
default_delay == 2   \* scraper.default_delay of get_default_config
default_formats == <<"json">>   \* storage.formats of get_default_config

\* the thread that calls run(); the tasks of the websites are 1..NumSites
MainThread == 0

Sites == 1..NumSites   \* website names, in the order of the config dict

\* the 'delay' key of a website's config: absent, or present with a value
NoDelay == [present |-> FALSE, value |-> 0]
OwnDelay(v) == [present |-> TRUE, value |-> v]
DelayValues == {NoDelay, OwnDelay(0), OwnDelay(3)}

\* the configurations of one website: the enabled flag, the number of pages
\* and the delay, and with them what the website serves: items is the set
\* of the numbers of elements the container selector can match on a page
\* selectors is the set of the keys of the website's selectors dict
SiteConfigs == [enabled : BOOLEAN, pages : 0..MaxPages, delay : DelayValues,
                items : {0..MaxItems},
                selectors : {{"quote_container", "text", "tags"}, {"text"}}]

\* the websites of the crawls: enabled or not, two pages of one container
\* each, the default delay, and a container and a text selector
CrawlConfigs == [enabled : BOOLEAN, pages : {2}, delay : {NoDelay},
                 items : {{1}}, selectors : {{"quote_container", "text"}}]

VARIABLES
    retries,           \* config['scraper']['retries']
    max_workers,       \* config['scraper']['max_workers']
    website_config,    \* config['websites']: name -> configuration
    pc,                \* position of the main thread in run()
    submitted,         \* number of websites already submitted to the executor
    queue,             \* the executor's work queue (submitted, not started)
    site,              \* per website: the frame of its scrape_website call
    yielded,           \* futures that as_completed has already yielded
    all_scraped_data,  \* the local mapping of scrape_all_websites
    scraped_data,      \* self.scraped_data
    report,            \* the report of generate_report, or NoReport
    formats,           \* config['storage']['formats']
    fmt_idx,           \* number of formats save_data has handled
    saved,             \* what save_data has written, in order
    write_log,         \* per website: the threads that wrote its entry
    extract_call       \* a direct call of extract_data_from_soup

vars == <<retries, max_workers, website_config, pc, submitted, queue, site,
          yielded, all_scraped_data, scraped_data, report, formats, fmt_idx,
          saved, write_log, extract_call>>

saveVars == <<fmt_idx, saved>>
mainVars == <<pc, submitted, yielded, all_scraped_data, scraped_data, report,
              saveVars, write_log>>
confVars == <<retries, max_workers, website_config, formats>>

EmptyMap == <<>>     \* the empty dict {}
NoReport == [total_websites |-> 0, websites |-> EmptyMap, total_items |-> 0,
             built |-> FALSE]

\* ------------------------------------------------------------- helpers
\* d[k] = v on a dict
DictSet(d, k, v) == [x \in (DOMAIN d) \cup {k} |-> IF x = k THEN v ELSE d[x]]

\* one event of a get_page_content call: a request attempt with its outcome
\* (n is the attempt number as logged, attempt + 1) or a backoff sleep
\* (n is the wait in seconds)
Event(e, n) == [ev |-> e, n |-> n]

\* ---------------------------------------------------------- page content
\* The keys a selectors dict can have in the model.  The three keys that
\* extract_data_from_soup looks up for the container selector, one more key
\* with the _container suffix, and two field keys.
ContainerKeys == {"quote_container", "book_container", "data_container"}
FieldNames == ContainerKeys \cup {"list_container", "text", "tags"}

\* field.endswith('_container')
EndsWithContainer(field) == field \in ContainerKeys \cup {"list_container"}

\* The text of one element of a page: the nth element that the selector of
\* field matches in container item of page number page of website site.
Text(url, item, field, nth) ==
    [site |-> url[1], page |-> url[2], item |-> item, field |-> field,
     nth |-> nth]

\* the separator ', ' of save_sqlite, as a piece of text
Separator == [site |-> 0, page |-> 0, item |-> 0, field |-> ", ", nth |-> 0]

\* The values of a record's field: None, an integer, a string (the
\* sequence of the pieces of text it is made of) or a list of strings.
NoneVal == [kind |-> "none", v |-> <<>>]
Num(n) == [kind |-> "int", v |-> <<n>>]
Str(pieces) == [kind |-> "str", v |-> pieces]
List(strs) == [kind |-> "list", v |-> strs]

\* What container.select(selector) does for one field in one container:
\* it raises, or it returns count elements.
Matches == {[raises |-> TRUE, count |-> 0]}
           \cup {[raises |-> FALSE, count |-> c] : c \in 0..MaxMatches}

\* a container in which every selector matches one element
PlainContainer == [field \in FieldNames |-> [raises |-> FALSE, count |-> 1]]

\* ------------------------------------------------------ get_page_content
\* the two results of get_page_content: None, or the parsed page, of which
\* the model keeps the url (website and page number) and the elements the
\* container selector matches, in document order
None == [parsed |-> FALSE, url |-> <<0, 0>>, containers |-> <<>>]
Soup(url, containers) ==
    [parsed |-> TRUE, url |-> url, containers |-> containers]

\* a page of n containers in each of which every selector matches once
PlainPage(n) == [i \in 1..n |-> PlainContainer]

\* a backoff that forgets the + 1 of the 0-based loop variable
wait_time_zero_based(a) == a * 2

\* wait_time = (attempt + 1) * 2
wait_time(a) == (a + 1) * 2

\* a retry test that is off by one and gives up one attempt early
ShouldRetry_early(a, r) == a + 1 < r

\* if attempt < retries: sleep and retry, else give up
ShouldRetry(a, r) == a < r

\* ------------------------------------------------ extract_data_from_soup
\* 'item_id': i + 1, with i the position of the container in the page
item_id(i) == i + 1

\* selectors.get('quote_container') or selectors.get('book_container') or
\* selectors.get('data_container')
HasContainerSelector(selectors) == selectors \cap ContainerKeys # {}

\* an extraction that gives '' and [] for a selector that matches nothing
FieldValue_empty_string(url, i, field, match) ==
    IF match.raises THEN NoneVal
    ELSE IF field = "tags"
         THEN List([k \in 1..match.count |->
                      Str(<<Text(url, i, field, k)>>)])
         ELSE Str([k \in 1..(IF match.count > 0 THEN 1 ELSE 0) |->
                     Text(url, i, field, 1)])

\* the value of one field of an item: the list of the texts of all the
\* matched elements for tags, the text of the first one for another field,
\* None when nothing matches and when the extraction raises
FieldValue(url, i, field, match) ==
    IF match.raises THEN NoneVal
    ELSE IF match.count > 0
         THEN IF field = "tags"
              THEN List([k \in 1..match.count |->
                           Str(<<Text(url, i, field, k)>>)])
              ELSE Str(<<Text(url, i, field, 1)>>)
         ELSE NoneVal

\* item_data of the container at position i (1-based) of the page
ItemData(soup, selectors, website_name, i) ==
    [key \in {"website", "item_id", "scraped_at"}
             \cup {field \in selectors : ~EndsWithContainer(field)} |->
        IF key \in selectors
        THEN FieldValue(soup.url, i, key, soup.containers[i][key])
        ELSE IF key = "website" THEN Str(<<website_name>>)
        ELSE IF key = "item_id" THEN Num(item_id(i - 1))
        ELSE Str(<<"utc_now">>)]

\* the single record of a page when no container selector is configured:
\* the text of the page (its first 1000 characters)
PageData(soup, website_name) ==
    [key \in {"website", "content", "scraped_at"} |->
        IF key = "website" THEN Str(<<website_name>>)
        ELSE IF key = "content" THEN Str(<<Text(soup.url, 0, "page", 0)>>)
        ELSE Str(<<"utc_now">>)]

\* the records of one page
extract_data_from_soup(soup, selectors, website_name) ==
    IF HasContainerSelector(selectors)
    THEN [i \in 1..Len(soup.containers) |->
            ItemData(soup, selectors, website_name, i)]
    ELSE <<PageData(soup, website_name)>>

\* a call of extract_data_from_soup on its own: the arguments, and the
\* returned list once the call is done; NoCall when there is none
NoCall == [selectors |-> {}, soup |-> None, done |-> FALSE, result |-> <<>>]

\* the containers of the pages handed to a call: text and tags match in
\* every way, every other selector matches once
ExtractContainers ==
    {[PlainContainer EXCEPT !["text"] = t, !["tags"] = g] :
        t \in Matches, g \in Matches}

ExtractPages == UNION {[1..n -> ExtractContainers] : n \in 0..MaxContainers}

\* -------------------------------------------------------- scrape_website
\* The frame of one scrape_website call (and of the get_page_content call
\* it is in):
\*   task      position of the task: unsubmitted, queued, begin, fetch,
\*             backoff, delay, and the two states of a done future,
\*             returned and raised
\*   page_idx  index in pages of the page being worked on (1-based)
\*   attempt   loop variable of get_page_content (0-based)
\*   call_log  events of the latest get_page_content call
\*   soup      the result of the latest finished call
\*   slept     the delays slept since the latest call returned
\*   all_data  the accumulator; the return value once the task returned, and
\*             what was accumulated before the fault once it raised
InitFrame == [task |-> "unsubmitted", page_idx |-> 0, attempt |-> 0,
              call_log |-> <<>>, soup |-> None, slept |-> <<>>,
              all_data |-> <<>>]

\* an enabled check that ignores the flag
Enabled_always(cfg) == TRUE

\* website_config.get('enabled', True)
Enabled(cfg) == cfg.enabled

\* a delay that is always the global default
delay_default_only(cfg) == default_delay

\* website_config.get('delay', default_delay)
delay(cfg) == IF cfg.delay.present THEN cfg.delay.value ELSE default_delay

\* return all_data (or return []): the other locals are gone
Return(f) == [f EXCEPT !.task = "returned", !.call_log = <<>>, !.soup = None,
                       !.slept = <<>>]

\* an exception leaves scrape_website: the future holds it
Raise(f) == [f EXCEPT !.task = "raised", !.call_log = <<>>, !.soup = None,
                      !.slept = <<>>]

\* a loop that takes every other page
NextPage_skips(f, cfg) ==
    IF f.page_idx < cfg.pages
    THEN [f EXCEPT !.task = "fetch", !.page_idx = @ + 2, !.attempt = 0]
    ELSE Return(f)

\* the next iteration of `for page in pages` (a new get_page_content call),
\* or the return after the loop
NextPage(f, cfg) ==
    IF f.page_idx < cfg.pages
    THEN [f EXCEPT !.task = "fetch", !.page_idx = @ + 1, !.attempt = 0]
    ELSE Return(f)

\* the start of scrape_website: the enabled check and the entry of the loop
Enter(f, cfg) == IF Enabled(cfg) THEN NextPage(f, cfg) ELSE Return(f)

\* after get_page_content returned and the page's records were appended:
\* the respectful delay, if any
AfterPage(f, cfg) ==
    IF delay(cfg) > 0
    THEN [f EXCEPT !.task = "delay", !.slept = <<delay(cfg)>>]
    ELSE NextPage([f EXCEPT !.slept = <<>>], cfg)

\* the log of the running call with the event of this attempt; the first
\* attempt of a call starts a new log
LogAttempt(f, outcome) ==
    (IF f.attempt = 0 THEN <<>> ELSE f.call_log)
        \o <<Event(outcome, f.attempt + 1)>>

\* a url built on the base_url of the first website
PageUrl_first_site(website_name, page_idx) == <<1, page_idx>>

\* url = urljoin(base_url, page): the website and the position of the page
PageUrl(website_name, page_idx) == <<website_name, page_idx>>

\* a success that still sleeps the backoff of its attempt before it returns
RequestOk_sleeps(f, cfg, website_name, n) ==
    LET page == Soup(PageUrl(website_name, f.page_idx), PlainPage(n)) IN
    AfterPage([f EXCEPT !.call_log = LogAttempt(f, "ok")
                           \o <<Event("wait", wait_time(f.attempt))>>,
                        !.soup = page,
                        !.all_data = @ \o extract_data_from_soup(
                                            page, cfg.selectors, website_name)],
              cfg)

\* session.get succeeds and the page parses into n containers:
\* get_page_content returns the soup, scrape_website extracts and extends
RequestOk(f, cfg, website_name, n) ==
    LET page == Soup(PageUrl(website_name, f.page_idx), PlainPage(n)) IN
    AfterPage([f EXCEPT !.call_log = LogAttempt(f, "ok"),
                        !.soup = page,
                        !.all_data = @ \o extract_data_from_soup(
                                            page, cfg.selectors, website_name)],
              cfg)

\* a task that gives the site up when a page cannot be fetched
RequestFails_abort(f, cfg, r) ==
    IF ShouldRetry(f.attempt, r)
    THEN [f EXCEPT !.call_log = LogAttempt(f, "fail")
                                \o <<Event("wait", wait_time(f.attempt))>>,
                   !.task = "backoff"]
    ELSE Return(f)

\* session.get or raise_for_status raises a RequestException: sleep and
\* retry, or return None after the last attempt
RequestFails(f, cfg, r) ==
    IF ShouldRetry(f.attempt, r)
    THEN [f EXCEPT !.call_log = LogAttempt(f, "fail")
                                \o <<Event("wait", wait_time(f.attempt))>>,
                   !.task = "backoff"]
    ELSE AfterPage([f EXCEPT !.call_log = LogAttempt(f, "fail"),
                             !.soup = None], cfg)

\* time.sleep(wait_time) is over: the next iteration of
\* `for attempt in range(retries + 1)`, or the return None after the loop
AfterBackoff(f, cfg, r) ==
    IF f.attempt + 1 < r + 1
    THEN [f EXCEPT !.attempt = @ + 1, !.task = "fetch"]
    ELSE AfterPage([f EXCEPT !.soup = None], cfg)

\* the task of site s is running on a worker thread
Running(s) == site[s].task \in {"begin", "fetch", "backoff", "delay"}

\* a completion test that misses the futures holding an exception
FutureDone_results_only(s) == site[s].task = "returned"

\* the future of site s is done
FutureDone(s) == site[s].task \in {"returned", "raised"}

\* ----------------------------------------------------- generate_report
\* a total that is assigned instead of accumulated
AddItems_assigned(total, item_count) == item_count

\* report['total_items'] += item_count
AddItems(total, item_count) == total + item_count

RECURSIVE ReportLoop(_, _, _)
\* the for loop of generate_report over the not yet visited names
ReportLoop(data, names, rep) ==
    IF names = {} THEN rep
    ELSE LET website_name == CHOOSE x \in names : \A y \in names : x <= y
             item_count   == Len(data[website_name])
             entry == [items_scraped |-> item_count,
                       status |-> IF item_count > 0 THEN "success"
                                                    ELSE "no_data"]
         IN ReportLoop(data, names \ {website_name},
                [rep EXCEPT !.websites = DictSet(@, website_name, entry),
                            !.total_items = AddItems(@, item_count)])

generate_report(data) ==
    ReportLoop(data, DOMAIN data,
               [total_websites |-> Cardinality(DOMAIN data),
                websites |-> EmptyMap,
                total_items |-> 0,
                built |-> TRUE])

\* ------------------------------------------------------------ save_data
\* the entries of storage.formats: the three formats save_data knows and
\* one it does not
FormatNames == {"json", "csv", "sqlite", "xml"}

\* json.dump of a value: None is null, a list is an array
ToJson(value) ==
    [json |-> CASE value.kind = "none" -> "null"
                [] value.kind = "int" -> "number"
                [] value.kind = "str" -> "string"
                [] value.kind = "list" -> "array",
     v |-> value.v]

\* a cell of DataFrame.to_csv: None is the empty cell, a list is written
\* as its repr
ToCsv(value) ==
    [cell |-> CASE value.kind = "none" -> "empty"
                [] value.kind = "list" -> "repr"
                [] OTHER -> "text",
     v |-> value.v]

\* a column value of DataFrame.to_sql
ToSql(value) ==
    [sql |-> CASE value.kind = "none" -> "NULL"
               [] value.kind = "int" -> "INTEGER"
               [] OTHER -> "TEXT",
     v |-> value.v]

\* a value as the format fmt writes it
Convert(fmt, value) ==
    CASE fmt = "json" -> ToJson(value)
      [] fmt = "csv" -> ToCsv(value)
      [] fmt = "sqlite" -> ToSql(value)

\* the rows of one website as the format fmt writes them
Rows(website_data, fmt) ==
    [i \in 1..Len(website_data) |->
        [key \in DOMAIN website_data[i] |->
            Convert(fmt, website_data[i][key])]]

\* for website_name, website_data in data.items(): if website_data:
WithData(data) == {w \in DOMAIN data : data[w] # <<>>}

RECURSIVE Join(_)
\* ', '.join(str(v) for v in value): the pieces of the joined string
Join(strs) ==
    IF strs = <<>> THEN <<>>
    ELSE IF Len(strs) = 1 THEN strs[1].v
    ELSE strs[1].v \o <<Separator>> \o Join(Tail(strs))

\* the two inner loops of save_sqlite on one item: item[key] is replaced
\* by the joined string for every value that is a list
ListsToStrings(item) ==
    [key \in DOMAIN item |->
        IF item[key].kind = "list" THEN Str(Join(item[key].v))
        ELSE item[key]]

\* data after save_sqlite ran on it: the items are converted in place
AfterSqlite(data) ==
    [w \in DOMAIN data |->
        [i \in 1..Len(data[w]) |-> ListsToStrings(data[w][i])]]

\* what save_json writes: one file with the whole mapping
save_json(data) ==
    [fmt |-> "json", content |-> [w \in DOMAIN data |-> Rows(data[w], "json")]]

\* what save_csv writes: one file per website that has records
save_csv(data) ==
    [fmt |-> "csv", content |-> [w \in WithData(data) |-> Rows(data[w], "csv")]]

\* what save_sqlite writes: one table per website that has records, from
\* the converted items
save_sqlite(data) ==
    [fmt |-> "sqlite",
     content |-> [w \in WithData(data) |-> Rows(AfterSqlite(data)[w], "sqlite")]]

\* the position of run() once save_data has handled k formats
AfterSave(k) == IF k < Len(formats) THEN "save" ELSE "report"

\* ------------------------------------------------------------------ Init
\* a crawl: run() on a configuration of NumSites websites, with no or one
\* retry
Init ==
    /\ retries \in {0, 1}
    /\ max_workers \in 1..MaxWorkers
    /\ website_config \in [Sites -> CrawlConfigs]
    /\ pc = "submit"
    /\ submitted = 0
    /\ queue = <<>>
    /\ site = [s \in Sites |-> InitFrame]
    /\ yielded = {}
    /\ all_scraped_data = EmptyMap
    /\ scraped_data = EmptyMap
    /\ report = NoReport
    /\ formats = default_formats
    /\ fmt_idx = 0
    /\ saved = <<>>
    /\ write_log = [s \in Sites |-> <<>>]
    /\ extract_call = NoCall

\* ------------------------------------------------- scrape_all_websites
\* executor.submit(self.scrape_website, name, config) for the next website
Submit ==
    /\ pc = "submit"
    /\ submitted < NumSites
    /\ submitted' = submitted + 1
    /\ queue' = Append(queue, submitted + 1)
    /\ site' = [site EXCEPT ![submitted + 1].task = "queued"]
    /\ pc' = IF submitted + 1 = NumSites THEN "collect" ELSE "submit"
    /\ UNCHANGED <<yielded, all_scraped_data, scraped_data, report, saveVars,
                   write_log, confVars, extract_call>>

\* number of worker threads that are running a task
Busy == Cardinality({s \in Sites : Running(s)})

\* a pool that starts a thread for every work item
WorkerFree_unbounded == TRUE

\* a worker thread is free to take the next work item
WorkerFree == Busy < max_workers

\* a free worker of the pool takes the oldest queued task
StartTask ==
    /\ queue # <<>>
    /\ WorkerFree
    /\ site' = [site EXCEPT ![Head(queue)].task = "begin"]
    /\ queue' = Tail(queue)
    /\ UNCHANGED <<mainVars, confVars, extract_call>>

\* the task of site s enters scrape_website
Begin(s) ==
    /\ site[s].task = "begin"
    /\ site' = [site EXCEPT ![s] = Enter(@, website_config[s])]
    /\ UNCHANGED <<queue, mainVars, confVars, extract_call>>

\* one request attempt of get_page_content with its outcome, up to the next
\* suspension point of the task
Request(s) ==
    /\ site[s].task = "fetch"
    /\ \/ \E n \in website_config[s].items :
            site' = [site EXCEPT
                       ![s] = RequestOk(@, website_config[s], s, n)]
       \/ site' = [site EXCEPT
                     ![s] = RequestFails(@, website_config[s], retries)]
       \/ \* an exception that is not a RequestException
          site' = [site EXCEPT ![s] = Raise(@)]
    /\ UNCHANGED <<queue, mainVars, confVars, extract_call>>

\* time.sleep(wait_time) is over
BackoffDone(s) ==
    /\ site[s].task = "backoff"
    /\ site' = [site EXCEPT
                  ![s] = AfterBackoff(@, website_config[s], retries)]
    /\ UNCHANGED <<queue, mainVars, confVars, extract_call>>

\* time.sleep(delay) is over
DelayDone(s) ==
    /\ site[s].task = "delay"
    /\ site' = [site EXCEPT ![s] = NextPage(@, website_config[s])]
    /\ UNCHANGED <<queue, mainVars, confVars, extract_call>>

\* a mapping keyed by the order in which the results arrive
StoreResult_by_arrival(m, s, data) ==
    DictSet(m, Cardinality(DOMAIN m) + 1, data)

\* data = future.result(); all_scraped_data[website_name] = data
StoreResult(m, s, data) == DictSet(m, s, data)

\* an iteration that yields a future again and again
Pending_always(s) == TRUE

\* as_completed yields every future once
Pending(s) == s \notin yielded

\* a handler that starts the mapping over when a task raised
StoreException_reset(m, s) == [x \in {s} |-> <<>>]

\* except Exception: all_scraped_data[website_name] = []
StoreException(m, s) == DictSet(m, s, <<>>)

\* as_completed yields the future of site s; the main thread stores its
\* result, or the empty list when the task raised
Collect(s) ==
    /\ pc = "collect"
    /\ FutureDone(s)
    /\ Pending(s)
    /\ yielded' = yielded \cup {s}
    /\ all_scraped_data' =
          IF site[s].task = "returned"
          THEN StoreResult(all_scraped_data, s, site[s].all_data)
          ELSE StoreException(all_scraped_data, s)
    /\ write_log' = [write_log EXCEPT ![s] = Append(@, MainThread)]
    /\ UNCHANGED <<pc, submitted, scraped_data, report, queue, site, saveVars,
                   confVars, extract_call>>

\* every future was yielded: the executor shuts down and
\* self.scraped_data = all_scraped_data
ReturnAll ==
    /\ pc = "collect"
    /\ yielded = Sites
    /\ scraped_data' = all_scraped_data
    /\ pc' = IF all_scraped_data # EmptyMap THEN AfterSave(0) ELSE "report"
    /\ UNCHANGED <<submitted, yielded, all_scraped_data, report, queue, site,
                   saveVars, write_log, confVars, extract_call>>

\* one iteration of the for loop of save_data on the mapping that
\* scrape_all_websites returned, which is self.scraped_data itself
SaveFormat ==
    /\ pc = "save"
    /\ fmt_idx < Len(formats)
    /\ LET fmt  == formats[fmt_idx + 1]
           data == IF fmt = "sqlite" THEN AfterSqlite(scraped_data)
                                     ELSE scraped_data
       IN /\ scraped_data' = data
          /\ all_scraped_data' = data
          /\ saved' = CASE fmt = "json" -> Append(saved, save_json(scraped_data))
                        [] fmt = "csv" -> Append(saved, save_csv(scraped_data))
                        [] fmt = "sqlite" ->
                              Append(saved, save_sqlite(scraped_data))
                        [] OTHER -> saved
    /\ fmt_idx' = fmt_idx + 1
    /\ pc' = AfterSave(fmt_idx + 1)
    /\ UNCHANGED <<submitted, yielded, report, write_log, queue, site,
                   confVars, extract_call>>

\* report = self.generate_report() in run()
GenerateReport ==
    /\ pc = "report"
    /\ report' = generate_report(scraped_data)
    /\ pc' = "done"
    /\ UNCHANGED <<submitted, yielded, all_scraped_data, scraped_data, queue,
                   site, saveVars, write_log, confVars, extract_call>>

SiteStep(s) == Begin(s) \/ Request(s) \/ BackoffDone(s) \/ DelayDone(s)

Next ==
    \/ Submit
    \/ StartTask
    \/ \E s \in Sites : Begin(s)
    \/ \E s \in Sites : Request(s)
    \/ \E s \in Sites : BackoffDone(s)
    \/ \E s \in Sites : DelayDone(s)
    \/ \E s \in Sites : Collect(s)
    \/ ReturnAll
    \/ SaveFormat
    \/ GenerateReport

Spec == Init /\ [][Next]_vars

\* the steps of the main thread
MainStep ==
    \/ Submit
    \/ \E s \in Sites : Collect(s)
    \/ ReturnAll
    \/ SaveFormat
    \/ GenerateReport

\* fair scheduling: the main thread and every worker thread keep running,
\* and every request and every sleep returns
FairSpec ==
    /\ Spec
    /\ WF_vars(MainStep)
    /\ WF_vars(StartTask)
    /\ \A s \in Sites : WF_vars(SiteStep(s))

\* ------------------------------------------------ one site task alone
\* scrape_website(name, config) called on website 1, for every
\* configuration of the website and every scraper.retries
SiteInit ==
    /\ retries \in 0..MaxRetries
    /\ max_workers = 1
    /\ website_config \in {[s \in Sites |-> c] : c \in SiteConfigs}
    /\ pc = "call"
    /\ submitted = 0
    /\ queue = <<>>
    /\ site = [s \in Sites |->
                 IF s = 1 THEN [InitFrame EXCEPT !.task = "begin"]
                          ELSE InitFrame]
    /\ yielded = {}
    /\ all_scraped_data = EmptyMap
    /\ scraped_data = EmptyMap
    /\ report = NoReport
    /\ formats = default_formats
    /\ fmt_idx = 0
    /\ saved = <<>>
    /\ write_log = [s \in Sites |-> <<>>]
    /\ extract_call = NoCall

SiteNext ==
    \/ Begin(1)
    \/ Request(1)
    \/ BackoffDone(1)
    \/ DelayDone(1)

SiteSpec == SiteInit /\ [][SiteNext]_vars

\* ------------------------------------------------- save_data on its own
\* the lists a website's task can have returned: no record, or one record
\* with a text and with tags matched in every way
ReturnedLists(s) ==
    {<<>>} \cup
    {extract_data_from_soup(
         Soup(<<s, 1>>, <<[PlainContainer EXCEPT !["tags"] = g]>>),
         {"quote_container", "text", "tags"}, s) : g \in Matches}

FormatLists == UNION {[1..n -> FormatNames] : n \in 0..MaxFormats}

\* run() when scrape_all_websites has returned, for every order of formats
SaveInit ==
    /\ retries = 0
    /\ max_workers = 1
    /\ website_config \in
          {[s \in Sites |-> c] : c \in {x \in CrawlConfigs : x.enabled}}
    /\ formats \in FormatLists
    /\ pc = AfterSave(0)
    /\ submitted = NumSites
    /\ queue = <<>>
    /\ \E data \in [Sites -> UNION {ReturnedLists(s) : s \in Sites}] :
          /\ \A s \in Sites : data[s] \in ReturnedLists(s)
          /\ site = [s \in Sites |->
                       [InitFrame EXCEPT !.task = "returned",
                                         !.all_data = data[s]]]
          /\ all_scraped_data = data
          /\ scraped_data = data
    /\ yielded = Sites
    /\ report = NoReport
    /\ fmt_idx = 0
    /\ saved = <<>>
    /\ write_log = [s \in Sites |-> <<MainThread>>]
    /\ extract_call = NoCall

SaveNext ==
    \/ SaveFormat
    \/ GenerateReport

SaveSpec == SaveInit /\ [][SaveNext]_vars

\* ------------------------------------ extract_data_from_soup on its own
ExtractInit ==
    /\ retries = 0
    /\ max_workers = 1
    /\ website_config \in
          {[s \in Sites |-> c] : c \in {x \in CrawlConfigs : x.enabled}}
    /\ formats = default_formats
    /\ pc = "call"
    /\ submitted = 0
    /\ queue = <<>>
    /\ site = [s \in Sites |-> InitFrame]
    /\ yielded = {}
    /\ all_scraped_data = EmptyMap
    /\ scraped_data = EmptyMap
    /\ report = NoReport
    /\ fmt_idx = 0
    /\ saved = <<>>
    /\ write_log = [s \in Sites |-> <<>>]
    /\ extract_call \in
          {[selectors |-> sel, soup |-> Soup(<<1, 1>>, p), done |-> FALSE,
            result |-> <<>>] : sel \in SUBSET FieldNames, p \in ExtractPages}

\* the call returns extracted_data
Extract ==
    /\ ~extract_call.done
    /\ extract_call' =
          [extract_call EXCEPT
              !.done = TRUE,
              !.result = extract_data_from_soup(extract_call.soup,
                                                extract_call.selectors, 1)]
    /\ UNCHANGED <<mainVars, confVars, queue, site>>

ExtractNext == Extract

ExtractSpec == ExtractInit /\ [][ExtractNext]_vars

\* ======================================================== properties
\* the request attempts of a call log
Requests(log) == SelectSeq(log, LAMBDA e : e.ev # "wait")

\* the backoff sleeps of a call log
Waits(log) == SelectSeq(log, LAMBDA e : e.ev = "wait")

\* every request of the log failed with a RequestException
AllFailed(log) == \A i \in 1..Len(log) : log[i].ev \in {"fail", "wait"}

\* the latest get_page_content call of the frame has returned to
\* scrape_website, which is sleeping its delay or about to fetch the next page
CallReturned(f) ==
    /\ f.call_log # <<>>
    /\ \/ f.task = "delay"
       \/ f.task = "fetch" /\ f.attempt = 0

\* C1: a call never makes more than retries + 1 request attempts, and a
\* call whose every request failed has made exactly retries + 1 attempts
\* when it returns, and returns None.
C1_AttemptsExhausted ==
    \A s \in Sites :
        LET f == site[s] IN
        /\ Len(Requests(f.call_log)) <= retries + 1
        /\ (CallReturned(f) /\ AllFailed(f.call_log))
              => /\ Len(Requests(f.call_log)) = retries + 1
                 /\ f.soup = None

\* a call against a failing endpoint returned after 3 attempts (retries = 2)
C1_Witness ==
    \E s \in Sites :
        /\ retries = 2
        /\ CallReturned(site[s])
        /\ AllFailed(site[s].call_log)
        /\ Len(Requests(site[s].call_log)) = 3

\* C2: within a call, a wait is logged exactly after every failed attempt
\* k <= retries and lasts 2 * k seconds, so that the waits are 2, 4, 6, ...
\* in that order; the request after a wait is attempt k + 1; there is no
\* wait after the failed attempt retries + 1, and none after a success.
C2_BackoffSchedule ==
    \A s \in Sites :
        LET log == site[s].call_log IN
        /\ \A j \in 1..Len(Waits(log)) : Waits(log)[j].n = 2 * j
        /\ \A i \in 1..Len(log) :
              /\ log[i].ev = "wait" =>
                    /\ i > 1
                    /\ log[i - 1].ev = "fail"
                    /\ log[i].n = 2 * log[i - 1].n
                    /\ i < Len(log) => /\ log[i + 1].ev # "wait"
                                       /\ log[i + 1].n = log[i - 1].n + 1
              /\ (log[i].ev = "fail" /\ log[i].n <= retries) =>
                    /\ i < Len(log)
                    /\ log[i + 1].ev = "wait"
              /\ (log[i].ev = "fail" /\ log[i].n = retries + 1) =>
                    i = Len(log)
              /\ log[i].ev = "ok" => i = Len(log)
        /\ site[s].task = "backoff" =>
              /\ log # <<>>
              /\ log[Len(log)].ev = "wait"

\* a call that failed three times has slept 2 and then 4 seconds, and
\* nothing after the third failure
C2_Witness ==
    \E s \in Sites :
        LET log == site[s].call_log IN
        /\ CallReturned(site[s])
        /\ Len(Waits(log)) = 2
        /\ Waits(log)[1].n = 2
        /\ Waits(log)[2].n = 4
        /\ log[Len(log)].ev = "fail"

\* C3: the item_id values of the records a site task returns are 1..N in
\* order, N the number of records of the site: the index runs across the
\* pages of the site.
C3_RunningItemIndex ==
    \A s \in Sites :
        (/\ site[s].task = "returned"
         /\ website_config[s].enabled
         /\ HasContainerSelector(website_config[s].selectors)) =>
            \A i \in 1..Len(site[s].all_data) :
                site[s].all_data[i].item_id = Num(i)

\* C4: when a site task raised after it accumulated k records, the
\* scheduler's outcome mapping holds these k records for the site, and
\* they count in the report's total_items.
C4_FaultKeepsRecords ==
    \A s \in yielded :
        site[s].task = "raised" =>
            /\ all_scraped_data[s] = site[s].all_data
            /\ pc = "done" => report.total_items >= Len(site[s].all_data)

\* C5: the report gives a site whose task raised the status error; no_data
\* is the status of a task that returned zero records only, and success
\* that of a site with at least one record.
C5_ErrorStatusReported ==
    pc = "done" =>
        \A s \in Sites :
            LET status == report.websites[s].status IN
            /\ site[s].task = "raised" => status = "error"
            /\ status = "no_data" => /\ site[s].task = "returned"
                                     /\ Len(site[s].all_data) = 0
            /\ status = "success" => Len(scraped_data[s]) >= 1

\* C6: a fault of one site task changes no other site's outcome: at every
\* moment the mapping holds exactly the futures yielded so far, the entry
\* of every task that returned is what this task accumulated, the entry of
\* a task that raised is the empty list, and the mapping handed to the
\* report has such an entry for every site.
C6_FailureIsolation ==
    /\ DOMAIN all_scraped_data = yielded
    /\ \A s \in yielded :
          /\ site[s].task = "returned" =>
                all_scraped_data[s] = site[s].all_data
          /\ site[s].task = "raised" => all_scraped_data[s] = <<>>
    /\ pc \in {"report", "done"} =>
          /\ DOMAIN scraped_data = Sites
          /\ \A s \in Sites :
                scraped_data[s] = IF site[s].task = "returned"
                                  THEN site[s].all_data ELSE <<>>

\* a finished crawl in which one task raised and another task returned
\* records, which the mapping holds
C6_Witness ==
    /\ pc = "done"
    /\ \E s, t \in Sites :
          /\ site[s].task = "raised"
          /\ scraped_data[s] = <<>>
          /\ site[t].task = "returned"
          /\ Len(scraped_data[t]) > 0

\* C7: at most max_workers site tasks are started and not finished, and a
\* task that is started was taken out of the queue of pending tasks.
C7_BoundedWorkers ==
    /\ Busy <= max_workers
    /\ \A i \in 1..Len(queue) : site[queue[i]].task = "queued"
    /\ \A s \in Sites :
          site[s].task = "queued" => \E i \in 1..Len(queue) : queue[i] = s

\* every worker is busy and a submitted site is waiting in the queue
C7_Witness ==
    /\ Busy = max_workers
    /\ queue # <<>>
    /\ pc = "collect"

\* C8: under fair scheduling the crawl completes and the report is built,
\* with an entry for every configured site.
C8_CrawlCompletes ==
    <>(/\ pc = "done"
       /\ report.built
       /\ DOMAIN report.websites = Sites)

\* a finished crawl with a report although every site task raised
C8_Witness ==
    /\ pc = "done"
    /\ report.built
    /\ \A s \in Sites : site[s].task = "raised"
    /\ DOMAIN report.websites = Sites

RECURSIVE SumItems(_, _)
\* the sum of items_scraped over the entries of a report for the names
SumItems(websites, names) ==
    IF names = {} THEN 0
    ELSE LET x == CHOOSE y \in names : TRUE
         IN websites[x].items_scraped + SumItems(websites, names \ {x})

\* C9: in the report, total_items is the sum of items_scraped over the
\* per-site entries, the items_scraped of a site is the number of records
\* held for it, and total_websites is the number of sites of the mapping.
C9_ReportTotals ==
    report.built =>
        /\ DOMAIN report.websites = DOMAIN scraped_data
        /\ report.total_items =
              SumItems(report.websites, DOMAIN report.websites)
        /\ \A s \in DOMAIN scraped_data :
              report.websites[s].items_scraped = Len(scraped_data[s])
        /\ report.total_websites = Cardinality(DOMAIN scraped_data)

\* a report over two sites that both hold records
C9_Witness ==
    /\ report.built
    /\ \E s, t \in DOMAIN scraped_data :
          /\ s # t
          /\ Len(scraped_data[s]) > 0
          /\ Len(scraped_data[t]) > 0
          /\ report.total_items >= 2

\* C10: the task of a disabled site never reaches a request or a sleep and
\* returns the empty list, whatever its pages and delay.
C10_DisabledSkips ==
    \A s \in Sites :
        ~website_config[s].enabled =>
            /\ site[s].task \in {"unsubmitted", "queued", "begin", "returned"}
            /\ site[s].call_log = <<>>
            /\ site[s].page_idx = 0
            /\ site[s].all_data = <<>>

\* a disabled site with pages and a positive delay, whose task returned
C10_Witness ==
    \E s \in Sites :
        /\ ~website_config[s].enabled
        /\ website_config[s].pages = MaxPages
        /\ delay(website_config[s]) > 0
        /\ site[s].task = "returned"
        /\ site[s].all_data = <<>>

\* the page a record was extracted from
RecordPage(r) ==
    IF "content" \in DOMAIN r THEN r.content.v[1].page ELSE r.text.v[1].page

\* the page that the latest returned call of the frame has fetched
CallPage(f) == IF f.task = "delay" THEN f.page_idx ELSE f.page_idx - 1

\* C11: a page whose fetch fails for good adds no record and does not end
\* the task: the task returns only after it went through all its pages, and
\* what it accumulated is, in page order, what extract_data_from_soup gave
\* for every page whose fetch succeeded.
C11_FailedPageSkipped ==
    \A s \in Sites :
        LET f == site[s]
            d == f.all_data
            cfg == website_config[s]
        IN
        /\ \A i \in 1..Len(d) : RecordPage(d[i]) \in 1..f.page_idx
        /\ \A i, j \in 1..Len(d) :
              i < j => RecordPage(d[i]) <= RecordPage(d[j])
        /\ (CallReturned(f) /\ AllFailed(f.call_log)) =>
              \A i \in 1..Len(d) : RecordPage(d[i]) # CallPage(f)
        /\ (CallReturned(f) /\ ~AllFailed(f.call_log)) =>
              SelectSeq(d, LAMBDA r : RecordPage(r) = CallPage(f))
                 = extract_data_from_soup(f.soup, cfg.selectors, s)
        /\ (cfg.enabled /\ f.task = "returned") => f.page_idx = cfg.pages

\* a task that returned the record of its second page after the fetch of
\* its first page had failed (without container selector every fetched page
\* gives one record)
C11_Witness ==
    \E s \in Sites :
        /\ site[s].task = "returned"
        /\ ~HasContainerSelector(website_config[s].selectors)
        /\ website_config[s].pages = 2
        /\ Len(site[s].all_data) = 1
        /\ RecordPage(site[s].all_data[1]) = 2

\* C12: no exception of an attempt leaves get_page_content, so that no site
\* task ends with an exception raised by a fetch.
C12_NoExceptionEscapes ==
    \A s \in Sites : site[s].task # "raised"

\* C13: every record has the three provenance keys website, item_id and
\* scraped_at, with or without container selector.
C13_ProvenanceKeys ==
    \A s \in Sites :
        \A i \in 1..Len(site[s].all_data) :
            {"website", "item_id", "scraped_at"}
                \subseteq DOMAIN site[s].all_data[i]


\* C14: records are immutable after creation: after any sequence of save
\* operations, in any order of the formats, every record of the collected
\* data is the record its task returned, and a multi-valued field is
\* written by json as an array
C14_RecordsImmutable ==
    /\ \A s \in DOMAIN scraped_data : scraped_data[s] = site[s].all_data
    /\ \A k \in 1..Len(saved) :
          saved[k].fmt = "json" =>
             \A w \in DOMAIN saved[k].content :
                \A i \in 1..Len(saved[k].content[w]) :
                   LET row == saved[k].content[w][i]
                   IN "tags" \in DOMAIN row =>
                         row.tags.json \in {"array", "null"}

\* the fields of a record that extraction takes from the selectors
SelectorFields(selectors) ==
    {field \in selectors : ~EndsWithContainer(field)}

\* C20: for every container, the record has exactly one key per selector
\* field not ending in _container; a field whose selector matches nothing
\* or whose extraction raises is None, never the empty string and never
\* missing, and the other fields of the item are still extracted
C20_AbsentFieldIsNone ==
    LET sel  == extract_call.selectors
        soup == extract_call.soup
        res  == extract_call.result
    IN (extract_call.done /\ HasContainerSelector(sel)) =>
          /\ Len(res) = Len(soup.containers)
          /\ \A i \in 1..Len(res) :
                /\ DOMAIN res[i] =
                      {"website", "item_id", "scraped_at"}
                         \cup SelectorFields(sel)
                /\ \A field \in SelectorFields(sel) :
                      LET m == soup.containers[i][field]
                      IN /\ res[i][field] # Str(<<>>)
                         /\ (m.raises \/ m.count = 0)
                               <=> res[i][field] = NoneVal
                         /\ (~m.raises /\ m.count > 0 /\ field = "tags")
                               => /\ res[i][field].kind = "list"
                                  /\ Len(res[i][field].v) = m.count
                         /\ (~m.raises /\ m.count > 0 /\ field # "tags")
                               => res[i][field].kind = "str"

\* an item whose text selector raises and whose tags selector matches
\* twice: text is None and the two tags are extracted
C20_Witness ==
    /\ extract_call.done
    /\ extract_call.selectors = {"quote_container", "text", "tags"}
    /\ Len(extract_call.result) = 1
    /\ extract_call.soup.containers[1]["text"].raises
    /\ extract_call.soup.containers[1]["tags"].count = 2
    /\ extract_call.result[1]["text"] = NoneVal
    /\ Len(extract_call.result[1]["tags"].v) = 2


\* scrape_all_websites has returned its mapping to run()
Returned == pc \in {"save", "report", "done"}

\* C15 as stated: each website's entry of the outcome mapping is written
\* exactly once per run, by that website's own task
C15_WrittenByOwnTask ==
    \A s \in Sites :
        /\ Len(write_log[s]) <= 1
        /\ \A k \in 1..Len(write_log[s]) : write_log[s][k] = s
        /\ Returned => write_log[s] = <<s>>

\* C15 amended: each website's entry of the outcome mapping is written
\* exactly once per run, by the thread that called scrape_all_websites,
\* after the website's task has finished; a task never writes the mapping,
\* so no two writers write the same entry
C15_WrittenOnceByCollector ==
    \A s \in Sites :
        /\ Len(write_log[s]) <= 1
        /\ \A k \in 1..Len(write_log[s]) : write_log[s][k] = MainThread
        /\ write_log[s] # <<>> <=> s \in DOMAIN all_scraped_data
        /\ write_log[s] # <<>> => FutureDone(s)
        /\ Returned => write_log[s] = <<MainThread>>

\* a finished crawl of which every entry was written once, one of them
\* holding the records of its task
C15_Witness ==
    /\ pc = "done"
    /\ \A s \in Sites : write_log[s] = <<MainThread>>
    /\ \E s \in Sites : site[s].task = "returned" /\ scraped_data[s] # <<>>
    /\ \E s \in Sites : scraped_data[s] = <<>>

\* the result of the task of website s, as its future holds it
TaskResult(s) ==
    IF site[s].task = "returned" THEN site[s].all_data ELSE <<>>

\* C16: the returned mapping has exactly one entry per configured website,
\* enabled or not, faulted or not, and no other key; it is determined by
\* the results of the tasks alone, whatever the order of completion
C16_OneEntryPerSite ==
    Returned =>
       /\ DOMAIN all_scraped_data = Sites
       /\ all_scraped_data = [s \in Sites |-> TaskResult(s)]
       /\ scraped_data = all_scraped_data

\* a returned mapping with the entries of a disabled website and of a
\* website whose task raised
C16_Witness ==
    /\ Returned
    /\ \E s, u \in Sites :
          /\ ~website_config[s].enabled
          /\ site[u].task = "raised"
          /\ {s, u} \subseteq DOMAIN all_scraped_data

\* the website of the page a record was extracted from
RecordSite(r) ==
    IF "content" \in DOMAIN r THEN r.content.v[1].site ELSE r.text.v[1].site

\* C17: every record stored under website name s has its website field
\* equal to s and was extracted from a page of s
C17_NoRecordCrossesSites ==
    /\ \A s \in DOMAIN all_scraped_data :
          \A i \in 1..Len(all_scraped_data[s]) :
             /\ all_scraped_data[s][i].website = Str(<<s>>)
             /\ RecordSite(all_scraped_data[s][i]) = s
    /\ \A s \in DOMAIN scraped_data :
          \A i \in 1..Len(scraped_data[s]) :
             /\ scraped_data[s][i].website = Str(<<s>>)
             /\ RecordSite(scraped_data[s][i]) = s

\* a returned mapping in which two websites have records
C17_Witness ==
    /\ Returned
    /\ \E s, u \in Sites :
          s # u /\ scraped_data[s] # <<>> /\ scraped_data[u] # <<>>

\* C18: with a positive delay there is exactly one sleep, of the website's
\* delay, between the end of the fetch of a page and the start of the fetch
\* of the next one, whether the fetch succeeded or not; the delay is the
\* website's own when it has one and default_delay otherwise
C18_OneDelayBetweenPages ==
    \A s \in Sites :
        LET f == site[s]
            cfg == website_config[s]
            own == IF cfg.delay.present THEN cfg.delay.value
                                        ELSE default_delay
        IN /\ (f.task \in {"fetch", "backoff"} /\ f.page_idx > 1 /\ own > 0)
                 => f.slept = <<own>>
           /\ f.task = "delay" => (own > 0 /\ f.slept = <<own>>)

\* the second page is about to be fetched after a failed fetch of the
\* first page and one sleep of the website's own delay
C18_Witness ==
    \E s \in Sites :
        /\ site[s].task = "fetch"
        /\ site[s].page_idx = 2
        /\ site[s].attempt = 0
        /\ ~HasContainerSelector(website_config[s].selectors)
        /\ site[s].all_data = <<>>
        /\ website_config[s].delay.present
        /\ site[s].slept = <<3>>

\* the latest get_page_content call of the frame is over: its last request
\* succeeded, or failed with no retry left
CallOver(f) ==
    /\ f.call_log # <<>>
    /\ LET last == f.call_log[Len(f.call_log)]
       IN \/ last.ev = "ok"
          \/ last.ev = "fail" /\ last.n = retries + 1
          \/ last.ev = "wait" /\ f.attempt = retries

\* C19: the pages of a website are fetched one at a time in the configured
\* order: a website is never queued or run twice at once, and the fetch of
\* the next page starts only from the delay that follows the finished call
\* (with its retries and the extraction) of the page before
C19_SequentialPages ==
    [][\A s \in Sites :
          LET f == site[s]
              g == site'[s]
          IN /\ Len(SelectSeq(queue, LAMBDA x : x = s)) <= 1
             /\ Running(s) => Len(SelectSeq(queue, LAMBDA x : x = s)) = 0
             /\ g.page_idx # f.page_idx =>
                   /\ g.page_idx = f.page_idx + 1
                   /\ g.task = "fetch"
                   /\ IF f.page_idx = 0 THEN f.task = "begin"
                                        ELSE f.task = "delay"
             /\ (g.task = "delay" /\ f.task # "delay") =>
                   /\ f.task \in {"fetch", "backoff"}
                   /\ g.page_idx = f.page_idx
                   /\ CallOver(g)
             /\ (g.task = "returned" /\ f.task # "returned"
                    /\ website_config[s].enabled) =>
                   f.page_idx = website_config[s].pages
      ]_vars

\* a website is fetching its second page while another website is running
C19_Witness ==
    \E s, u \in Sites :
        /\ s # u
        /\ site[s].task = "fetch"
        /\ site[s].page_idx = 2
        /\ Running(u)


\* C21: when attempt k is the first one that succeeds, the call returns
\* the parsed page at once: its log is the failed attempts 1..k-1, each
\* followed by its wait 2, 4, ..., 2*(k-1), and then the successful
\* attempt k as the last event, with no request and no wait after it
C21_FirstSuccessReturns ==
    \A s \in Sites :
        LET f   == site[s]
            log == f.call_log
        IN \A i \in 1..Len(log) :
              log[i].ev = "ok" =>
                 LET k == log[i].n IN
                 /\ k \in 1..(retries + 1)
                 /\ i = Len(log)
                 /\ Len(log) = 2 * k - 1
                 /\ Len(Requests(log)) = k
                 /\ \A j \in 1..k : Requests(log)[j].n = j
                 /\ \A j \in 1..(k - 1) : Requests(log)[j].ev = "fail"
                 /\ Len(Waits(log)) = k - 1
                 /\ \A j \in 1..(k - 1) :
                       /\ Waits(log)[j].n = 2 * j
                       /\ log[2 * j] = Waits(log)[j]
                 /\ CallReturned(f)
                 /\ f.soup.parsed
                 /\ f.soup.url = PageUrl(s, CallPage(f))

\* a call that succeeded at its third attempt, after the waits 2 and 4,
\* has returned the page
C21_Witness ==
    \E s \in Sites :
        LET f == site[s] IN
        /\ f.call_log = <<Event("fail", 1), Event("wait", 2),
                          Event("fail", 2), Event("wait", 4),
                          Event("ok", 3)>>
        /\ f.task = "delay"
        /\ f.soup.parsed

====
